---- MODULE Spec2Model ----
(***************************************************************************)
(* codex-shimmer: a waybar CFFI module (src/cffi/codex_shimmer/main.c).    *)
(* One CodexShimmer instance shows the text of a JSON cache file and       *)
(* sweeps a highlight band across it.  The model follows main.c handler    *)
(* by handler: wbcffi_init, wbcffi_deinit, wbcffi_update, wbcffi_refresh,  *)
(* wbcffi_doaction, animation_tick, on_draw, handle_file_change, and       *)
(* load_cache with its helpers.  All handlers run on the GTK main loop,    *)
(* one at a time, so each is one atomic action.                            *)
(*                                                                         *)
(* Numbers.  A C double that comes from JSON is held as an integer number  *)
(* of thousandths (1600.0 is 1600000, 0.35 is 350); the monotonic clock    *)
(* is in microseconds as in the code, so elapsed milliseconds in           *)
(* thousandths are elapsed microseconds.  The geometry of on_draw is       *)
(* computed in exact rationals <<numerator, denominator>>; the rounding    *)
(* of binary floating point is not modelled.                               *)
(***************************************************************************)
EXTENDS Integers, Sequences, FiniteSets, TLC

VARIABLES
  pc,      \* "unloaded" before wbcffi_init, "running", "dead" after wbcffi_deinit
  inst,    \* the CodexShimmer struct
  widget,  \* what the module has set on its GTK widgets
  now,     \* g_get_monotonic_time(), microseconds
  last,    \* the handler that ran last, what it read and what it painted
  good     \* the cache file of the latest load_cache that returned TRUE

vars == <<pc, inst, widget, now, last, good>>

----------------------------------------------------------------------------
\* Arithmetic helpers

MAX(a, b) == IF a > b THEN a ELSE b

CLAMP(x, low, high) == IF x > high THEN high ELSE IF x < low THEN low ELSE x

Abs(x) == IF x < 0 THEN -x ELSE x

RECURSIVE Gcd(_, _)
Gcd(a, b) == IF b = 0 THEN a ELSE Gcd(b, a % b)

\* Exact rationals <<n, d>> with d > 0, in lowest terms.
Rat(n, d) ==
  LET s == IF d < 0 THEN -1 ELSE 1
      g == Gcd(Abs(n), Abs(d))
  IN  IF n = 0 THEN <<0, 1>> ELSE <<(s * n) \div g, (s * d) \div g>>

RAdd(a, b) == Rat(a[1] * b[2] + b[1] * a[2], a[2] * b[2])
RSub(a, b) == Rat(a[1] * b[2] - b[1] * a[2], a[2] * b[2])
RMul(a, b) == Rat(a[1] * b[1], a[2] * b[2])
RLt(a, b)  == a[1] * b[2] < b[1] * a[2]
RLe(a, b)  == a[1] * b[2] <= b[1] * a[2]
RMax(a, b) == IF RLt(b, a) THEN a ELSE b
RInt(n)    == <<n, 1>>

\* A double held in thousandths, as a rational.
Milli == 1000
RMilli(x) == Rat(x, Milli)

----------------------------------------------------------------------------
\* JSON (json-glib).  A JsonNode is a record; NoNode is the NULL pointer.

NoNode      == [type |-> "NULL"]
JNull       == [type |-> "null"]
JBool(b)    == [type |-> "boolean", b |-> b]
JNumber(v)  == [type |-> "number", v |-> v]      \* v in thousandths
JString(s)  == [type |-> "string", s |-> s]
JArray(e)   == [type |-> "array", elems |-> e]
JObject(m)  == [type |-> "object", members |-> m]

\* A JSON text: either the parser rejects it, or it yields a root node.
BadText     == [valid |-> FALSE]
Text(root)  == [valid |-> TRUE, root |-> root]

\* A C string pointer: NULL or a string.
NULL        == [isnull |-> TRUE]
Str(s)      == [isnull |-> FALSE, s |-> s]

json_node_is_number(node) == node.type = "number"

json_node_get_double_or(node, fallback) ==
  IF ~json_node_is_number(node) THEN fallback ELSE node.v

\* json_node_get_int truncates toward zero.  G_MAXUINT (2^32 - 1) lies above
\* every number of the model, so only the lower arm of the CLAMP can act.
json_node_get_int(node) ==
  IF node.v < 0 THEN -((-node.v) \div Milli) ELSE node.v \div Milli

json_node_get_uint_or(node, fallback) ==
  IF ~json_node_is_number(node) THEN fallback
  ELSE IF json_node_get_int(node) < 0 THEN 0 ELSE json_node_get_int(node)

json_node_is_string(node) == node.type = "string"

parse_json_value(value) == IF value.valid THEN value.root ELSE NoNode

\* config_entries is a sequence of [key, value]; the first match wins.
NoValue == [valid |-> FALSE, absent |-> TRUE]

config_has(entries, key) == \E i \in 1..Len(entries) : entries[i].key = key

config_lookup(entries, key) ==
  IF ~config_has(entries, key) THEN NoValue
  ELSE entries[CHOOSE i \in 1..Len(entries) :
                  /\ entries[i].key = key
                  /\ \A j \in 1..(i - 1) : entries[j].key # key].value

\* A path is a sequence of one-character strings.
HomeDir == <<"/", "h">>

expand_user_path(path) ==
  IF Len(path) > 0 /\ path[1] = "~" THEN HomeDir \o Tail(path) ELSE path

default_cache_path == HomeDir \o <<"/", "l">>

\* gdk_rgba_parse leaves the colour alone when the string is no colour;
\* a "#RRGGBB" colour is opaque.
ValidColors == {"#C7D3FF", "#FFFFFF", "#FF0000"}

gdk_rgba_parse(rgba, s) ==
  IF s \in ValidColors THEN [rgb |-> s, alpha |-> 1 * Milli] ELSE rgba

----------------------------------------------------------------------------
\* The instance right after g_new0 (every field zero) and the widgets before
\* the module has touched them.

ZeroInst ==
  [ cache_path      |-> <<>>,
    text_plain      |-> NULL,
    tooltip_text    |-> NULL,
    style_classes   |-> <<>>,
    base_rgba       |-> [rgb |-> "", alpha |-> 0],
    highlight_rgba  |-> [rgb |-> "", alpha |-> 0],
    period_ms       |-> 0,
    width_chars     |-> 0,
    cycles          |-> 0,
    tick_ms         |-> 0,
    pause_ms        |-> 0,
    highlight_alpha |-> 0,
    base_alpha      |-> 0,
    timeout_id      |-> 0,
    monitor         |-> FALSE,
    start_time_us   |-> 0 ]

NoSize == [w |-> -1, h |-> -1]

ZeroWidget ==
  [ classes      |-> {},       \* style classes on inst->container
    tooltip      |-> NULL,     \* tooltip of inst->drawing_area
    size_request |-> NoSize ]  \* size request of inst->drawing_area

\* The defaults of wbcffi_init, lines 146-152.
DefaultPeriodMs       == 1600 * Milli
DefaultWidthChars     == 4 * Milli
DefaultCycles         == 1 * Milli
DefaultTickMs         == 33
DefaultPauseMs        == 500 * Milli
DefaultHighlightAlpha == 350
DefaultBaseAlpha      == 1 * Milli

\* One numeric key: the field keeps `cur` unless the key is present.
cfg_double(entries, key, cur) ==
  IF config_has(entries, key)
  THEN json_node_get_double_or(parse_json_value(config_lookup(entries, key)), cur)
  ELSE cur

cfg_uint(entries, key, cur) ==
  IF config_has(entries, key)
  THEN json_node_get_uint_or(parse_json_value(config_lookup(entries, key)), cur)
  ELSE cur

cfg_alpha(entries, key, cur) ==
  IF config_has(entries, key)
  THEN CLAMP(json_node_get_double_or(parse_json_value(config_lookup(entries, key)), cur),
             0, 1 * Milli)
  ELSE cur

cfg_color(entries, key, cur) ==
  IF config_has(entries, key)
     /\ json_node_is_string(parse_json_value(config_lookup(entries, key)))
  THEN gdk_rgba_parse(cur, parse_json_value(config_lookup(entries, key)).s)
  ELSE cur

cfg_cache_path(entries) ==
  IF config_has(entries, "cache_path")
     /\ json_node_is_string(parse_json_value(config_lookup(entries, "cache_path")))
  THEN expand_user_path(parse_json_value(config_lookup(entries, "cache_path")).s)
  ELSE default_cache_path

cfg_width_chars(entries, cur) ==
  IF config_has(entries, "width_chars")
  THEN cfg_double(entries, "width_chars", cur)
  ELSE cfg_double(entries, "width", cur)

\* The clamps of lines 260-264.
clamp_period_ms(v)   == MAX(v, 200 * Milli)
clamp_width_chars(v) == CLAMP(v, 1 * Milli, 20 * Milli)
clamp_cycles(v)      == CLAMP(v, 100, 6 * Milli)
\* A variant that forgets the floor of the tick.
clamp_tick_ms_no_floor(v) == CLAMP(v, 0, 1000)

clamp_tick_ms(v)     == CLAMP(v, 5, 1000)
clamp_pause_ms(v)    == MAX(v, 0)

\* wbcffi_init up to line 266: the configuration part.
configure(entries) ==
  LET halpha == cfg_alpha(entries, "highlight_alpha", DefaultHighlightAlpha)
      balpha == cfg_alpha(entries, "base_alpha", DefaultBaseAlpha)
      base   == cfg_color(entries, "base_color",
                          gdk_rgba_parse([rgb |-> "", alpha |-> 0], "#C7D3FF"))
      high   == cfg_color(entries, "highlight_color",
                          [gdk_rgba_parse([rgb |-> "", alpha |-> 0], "#FFFFFF")
                             EXCEPT !.alpha = DefaultHighlightAlpha])
  IN  [ ZeroInst EXCEPT
          !.cache_path      = cfg_cache_path(entries),
          !.period_ms       = clamp_period_ms(cfg_double(entries, "period_ms", DefaultPeriodMs)),
          !.width_chars     = clamp_width_chars(cfg_width_chars(entries, DefaultWidthChars)),
          !.cycles          = clamp_cycles(cfg_double(entries, "cycles", DefaultCycles)),
          !.tick_ms         = clamp_tick_ms(cfg_uint(entries, "tick_ms", DefaultTickMs)),
          !.pause_ms        = clamp_pause_ms(cfg_double(entries, "pause_ms", DefaultPauseMs)),
          !.highlight_alpha = halpha,
          !.base_alpha      = balpha,
          !.highlight_rgba  = [high EXCEPT !.alpha = halpha],
          !.base_rgba       = [base EXCEPT !.alpha = balpha] ]

----------------------------------------------------------------------------
\* Text measurement (Pango).  The font is fixed: `advance` pixels per code
\* point and a line height, so the empty text measures zero pixels wide.

g_utf8_strlen(s) == Len(s)

Font == [advance |-> 10, height |-> 16]

pango_layout_get_pixel_size(text) ==
  [w |-> Font.advance * g_utf8_strlen(text), h |-> Font.height]

\* The cache file as the loader sees it: unreadable, or a JSON text.
Unreadable     == [readable |-> FALSE]
FileOf(text)   == [readable |-> TRUE, text |-> text]

g_file_get_contents(file) == file.readable

json_parser_load_from_data(file) == file.text.valid

JSON_NODE_HOLDS_OBJECT(root) == root.type = "object"

json_object_has_member(obj, name) == name \in DOMAIN obj.members

\* NULL for a member that holds no string (null, number, boolean, array, object).
json_object_get_string_member(obj, name) ==
  IF json_node_is_string(obj.members[name]) THEN Str(obj.members[name].s) ELSE NULL

Placeholder == "Waiting for Codex."   \* the final character stands for U+2026

Range(seq) == {seq[k] : k \in 1..Len(seq)}

\* A variant that empties the record and leaves the style context alone.
free_style_classes_keep(i, w) ==
  [ inst |-> [i EXCEPT !.style_classes = <<>>], widget |-> w ]

\* free_style_classes: every recorded class leaves the style context,
\* then the record is emptied.
free_style_classes(i, w) ==
  [ inst   |-> [i EXCEPT !.style_classes = <<>>],
    widget |-> [w EXCEPT !.classes = w.classes \ Range(i.style_classes)] ]

IsStringNode(node) == json_node_is_string(node)

StringsOf(nodes) ==
  LET strs == SelectSeq(nodes, IsStringNode)
  IN  [k \in 1..Len(strs) |-> strs[k].s]

\* update_style_classes: `classes` is a record [null, elems].
NoArray      == [null |-> TRUE, elems |-> <<>>]
ArrayOf(e)   == [null |-> FALSE, elems |-> e]

update_style_classes(i, w, classes) ==
  LET freed == free_style_classes(i, w)
  IN  IF classes.null THEN freed
      ELSE [ inst   |-> [freed.inst EXCEPT !.style_classes = StringsOf(classes.elems)],
             widget |-> [freed.widget EXCEPT
                           !.classes = freed.widget.classes
                                         \cup Range(StringsOf(classes.elems))] ]

\* The `classes` array of load_cache, lines 505-514.
classes_of(obj) ==
  IF ~json_object_has_member(obj, "class") THEN NoArray
  ELSE IF obj.members["class"].type = "array" THEN ArrayOf(obj.members["class"].elems)
  ELSE IF json_node_is_string(obj.members["class"]) THEN ArrayOf(<<obj.members["class"]>>)
  ELSE NoArray

\* A variant that keeps the old tooltip when the object has none.
apply_object_keeps_tooltip(i, w, obj, t) ==
  LET text    == IF json_object_has_member(obj, "text")
                 THEN json_object_get_string_member(obj, "text") ELSE NULL
      tooltip == IF json_object_has_member(obj, "tooltip")
                 THEN json_object_get_string_member(obj, "tooltip") ELSE i.tooltip_text
      shown   == IF text.isnull THEN Str(Placeholder) ELSE text
      i1      == [i EXCEPT !.text_plain = shown, !.tooltip_text = tooltip]
      w1      == [w EXCEPT !.tooltip = tooltip]
      styled  == update_style_classes(i1, w1, classes_of(obj))
      size    == pango_layout_get_pixel_size(shown.s)
  IN  [ ok     |-> TRUE,
        inst   |-> [styled.inst EXCEPT !.start_time_us = t],
        widget |-> [styled.widget EXCEPT
                      !.size_request = [w |-> MAX(size.w + 16, 80), h |-> size.h + 8]] ]

\* load_cache, lines 501-542: the root is an object.
apply_object(i, w, obj, t) ==
  LET text    == IF json_object_has_member(obj, "text")
                 THEN json_object_get_string_member(obj, "text") ELSE NULL
      tooltip == IF json_object_has_member(obj, "tooltip")
                 THEN json_object_get_string_member(obj, "tooltip") ELSE NULL
      shown   == IF text.isnull THEN Str(Placeholder) ELSE text
      i1      == [i EXCEPT !.text_plain = shown, !.tooltip_text = tooltip]
      w1      == [w EXCEPT !.tooltip = tooltip]
      styled  == update_style_classes(i1, w1, classes_of(obj))
      size    == pango_layout_get_pixel_size(shown.s)
  IN  [ ok     |-> TRUE,
        inst   |-> [styled.inst EXCEPT !.start_time_us = t],
        widget |-> [styled.widget EXCEPT
                      !.size_request = [w |-> MAX(size.w + 16, 80), h |-> size.h + 8]] ]

\* A variant without the test of the root's shape: a root that is no object
\* is read as an object without members.
load_cache_no_shape_check(i, w, file, t) ==
  IF ~g_file_get_contents(file) THEN [ok |-> FALSE, inst |-> i, widget |-> w]
  ELSE IF ~json_parser_load_from_data(file) THEN [ok |-> FALSE, inst |-> i, widget |-> w]
  ELSE IF ~JSON_NODE_HOLDS_OBJECT(file.text.root)
  THEN [apply_object(i, w, JObject(<<>>), t) EXCEPT !.ok = FALSE]
  ELSE apply_object(i, w, file.text.root, t)

\* A variant that restarts the animation before it reads the file.
load_cache_epoch_first(i, w, file, t) ==
  IF ~g_file_get_contents(file)
  THEN [ok |-> FALSE, inst |-> [i EXCEPT !.start_time_us = t], widget |-> w]
  ELSE IF ~json_parser_load_from_data(file)
  THEN [ok |-> FALSE, inst |-> [i EXCEPT !.start_time_us = t], widget |-> w]
  ELSE IF ~JSON_NODE_HOLDS_OBJECT(file.text.root)
  THEN [ok |-> FALSE, inst |-> [i EXCEPT !.start_time_us = t], widget |-> w]
  ELSE apply_object(i, w, file.text.root, t)

load_cache(i, w, file, t) ==
  IF ~g_file_get_contents(file) THEN [ok |-> FALSE, inst |-> i, widget |-> w]
  ELSE IF ~json_parser_load_from_data(file) THEN [ok |-> FALSE, inst |-> i, widget |-> w]
  ELSE IF ~JSON_NODE_HOLDS_OBJECT(file.text.root) THEN [ok |-> FALSE, inst |-> i, widget |-> w]
  ELSE apply_object(i, w, file.text.root, t)

----------------------------------------------------------------------------
\* on_draw.  It changes no field of the instance; what it paints is a frame:
\*   ret          the callback's return value
\*   base         the base text pass was painted (lines 365-370)
\*   stops        colour stops added to the gradient (0: no highlight pass)
\* and, for the highlight pass, the band geometry in exact rationals.  The
\* alpha of each stop (a Gaussian of its distance to the centre) is not held.

R0 == <<0, 1>>

NoFrame ==
  [ ret |-> FALSE, base |-> FALSE, stops |-> 0, layout_width_px |-> 0, glyphs |-> 0,
    elapsed_us |-> 0, cycle_pos |-> 0, phase |-> R0, envelope |-> R0,
    width_px |-> R0, center_px |-> R0, gradient_start |-> R0, gradient_end |-> R0 ]

glyphs_of(text) == MAX(1, g_utf8_strlen(text))

avg_char_width_of(layout_width_px, glyphs) ==
  IF glyphs > 0 THEN Rat(layout_width_px, glyphs) ELSE RInt(layout_width_px)

base_width_of(avg, width_chars) == RMax(RMul(avg, RMilli(width_chars)), avg)

phase_of(cycle_pos, period_ms) == Rat(cycle_pos, period_ms)

envelope_of(phase) ==
  IF RLt(phase, <<1, 2>>) THEN RMul(phase, RInt(2))
  ELSE RMul(RSub(RInt(1), phase), RInt(2))

width_px_of(avg, base_width, envelope) ==
  RMax(RMax(RMul(avg, <<3, 5>>), RMul(base_width, envelope)), RMul(avg, <<3, 5>>))

center_px_of(layout_width_px, width_px, phase) ==
  RAdd(RSub(R0, width_px),
       RMul(phase, RAdd(RInt(layout_width_px), RMul(width_px, RInt(2)))))

\* The band at one cycle position, lines 380-397.
band_of(layout_width_px, text, width_chars, period_ms, cycle_pos) ==
  LET glyphs == glyphs_of(text)
      avg    == avg_char_width_of(layout_width_px, glyphs)
      phase  == phase_of(cycle_pos, period_ms)
      env    == envelope_of(phase)
      width  == width_px_of(avg, base_width_of(avg, width_chars), env)
      center == center_px_of(layout_width_px, width, phase)
      gstart == RSub(center, RMul(width, RInt(2)))
      gend   == RAdd(center, RMul(width, RInt(2)))
  IN  [ glyphs |-> glyphs, phase |-> phase, envelope |-> env, width_px |-> width,
        center_px |-> center, gradient_start |-> gstart,
        gradient_end |-> IF RLe(gend, gstart) THEN RAdd(gstart, RInt(1)) ELSE gend ]

\* cycle_pos = fmod(elapsed_ms, period_ms + pause_ms), in thousandths of a ms.
cycle_pos_of(i, elapsed_us) == elapsed_us % (i.period_ms + i.pause_ms)

\* A variant that compares with the whole cycle instead of the period.
highlight_skipped_whole_cycle(i, cycle_pos) ==
  cycle_pos >= i.period_ms + i.pause_ms \/ i.highlight_alpha <= 0

\* The test of line 375: TRUE when the highlight pass is skipped.
highlight_skipped(i, cycle_pos) == cycle_pos >= i.period_ms \/ i.highlight_alpha <= 0

GradientSteps == 96

on_draw(i, t) ==
  IF i.text_plain.isnull THEN NoFrame
  ELSE
    LET layout_width_px == pango_layout_get_pixel_size(i.text_plain.s).w
        elapsed_us      == t - i.start_time_us
        cycle_pos       == cycle_pos_of(i, elapsed_us)
        band            == band_of(layout_width_px, i.text_plain.s, i.width_chars,
                                   i.period_ms, cycle_pos)
        painted         == [NoFrame EXCEPT !.ret = TRUE, !.base = TRUE,
                              !.layout_width_px = layout_width_px,
                              !.elapsed_us = elapsed_us, !.cycle_pos = cycle_pos]
    IN  IF layout_width_px <= 0 THEN [NoFrame EXCEPT !.ret = TRUE]
        ELSE IF highlight_skipped(i, cycle_pos) THEN painted
        ELSE [painted EXCEPT
                !.stops = GradientSteps + 1,
                !.glyphs = band.glyphs, !.phase = band.phase,
                !.envelope = band.envelope, !.width_px = band.width_px,
                !.center_px = band.center_px,
                !.gradient_start = band.gradient_start,
                !.gradient_end = band.gradient_end ]

----------------------------------------------------------------------------
\* The record of the handler that ran last.

NoOp ==
  [ op |-> "none", arg |-> "", loaded |-> FALSE, file |-> Unreadable, ok |-> FALSE,
    at |-> 0, frame |-> NoFrame ]

Ran(op, arg) == [NoOp EXCEPT !.op = op, !.arg = arg, !.at = now]

Loaded(op, arg, file, ok) ==
  [NoOp EXCEPT !.op = op, !.arg = arg, !.at = now, !.loaded = TRUE, !.file = file, !.ok = ok]

NoGood == [any |-> FALSE]

GoodAfter(file, ok) == IF ok THEN [any |-> TRUE, file |-> file] ELSE good

\* GFileMonitorEvent
ReloadEvents == {"CHANGED", "CREATED", "CHANGES_DONE_HINT", "MOVED_IN", "MOVED"}

FileMonitorEvents ==
  {"CHANGED", "CHANGES_DONE_HINT", "DELETED", "CREATED", "ATTRIBUTE_CHANGED",
   "PRE_UNMOUNT", "UNMOUNTED", "MOVED", "RENAMED", "MOVED_IN", "MOVED_OUT"}

\* A variant whose switch lacks the MOVED case.
event_reloads_no_moved(event) == event \in (ReloadEvents \ {"MOVED"})

\* The switch of handle_file_change.
event_reloads(event) == event \in ReloadEvents

\* A variant that reloads on every action name.
action_reloads_any(name) == TRUE

\* The test of wbcffi_doaction, line 327.
action_reloads(name) == name = Str("reload")

----------------------------------------------------------------------------
\* The handlers.

Init ==
  /\ pc = "unloaded"
  /\ inst = ZeroInst
  /\ widget = ZeroWidget
  /\ now = 0
  /\ last = NoOp
  /\ good = NoGood

\* wbcffi_init: configuration, widgets, epoch, monitor, first load, timer.
init_with(entries, monitor_ok, file) ==
  /\ LET configured == [configure(entries) EXCEPT !.start_time_us = now,
                                                  !.monitor = monitor_ok]
         loaded     == load_cache(configured, ZeroWidget, file, now)
     IN  /\ inst' = [loaded.inst EXCEPT !.timeout_id = 1]
         /\ widget' = loaded.widget
         /\ last' = Loaded("init", "", file, loaded.ok)
         /\ good' = GoodAfter(file, loaded.ok)
  /\ pc' = "running"
  /\ UNCHANGED now

\* The monitor may fail to be set up (setup_monitor returns FALSE).
wbcffi_init(configs, files) ==
  /\ pc = "unloaded"
  /\ \E entries \in configs, monitor_ok \in BOOLEAN, file \in files :
       init_with(entries, monitor_ok, file)

\* wbcffi_deinit: the timer and the monitor go, the strings are freed and the
\* recorded classes leave the container.
wbcffi_deinit ==
  /\ pc = "running"
  /\ LET freed == free_style_classes(inst, widget)
     IN  /\ inst' = [freed.inst EXCEPT !.timeout_id = 0, !.monitor = FALSE,
                                       !.cache_path = <<>>, !.text_plain = NULL,
                                       !.tooltip_text = NULL]
         /\ widget' = freed.widget
  /\ pc' = "dead"
  /\ last' = Ran("deinit", "")
  /\ UNCHANGED <<now, good>>

\* wbcffi_update: the host asks for a redraw (gtk_widget_queue_draw only).
wbcffi_update ==
  /\ pc = "running"
  /\ last' = Ran("update", "")
  /\ UNCHANGED <<pc, inst, widget, now, good>>

\* wbcffi_refresh, also reached from wbcffi_doaction and handle_file_change.
refresh(op, arg, file) ==
  LET loaded == load_cache(inst, widget, file, now)
  IN  /\ inst' = loaded.inst
      /\ widget' = loaded.widget
      /\ last' = Loaded(op, arg, file, loaded.ok)
      /\ good' = GoodAfter(file, loaded.ok)

wbcffi_refresh(files) ==
  /\ pc = "running"
  /\ \E file \in files : refresh("refresh", "", file)
  /\ UNCHANGED <<pc, now>>

\* wbcffi_doaction: `name` is a C string, possibly NULL.
wbcffi_doaction(name, files) ==
  /\ pc = "running"
  /\ IF ~name.isnull /\ action_reloads(name)
     THEN \E file \in files : refresh("doaction", name.s, file)
     ELSE /\ last' = Ran("doaction", IF name.isnull THEN "" ELSE name.s)
          /\ UNCHANGED <<inst, widget, good>>
  /\ UNCHANGED <<pc, now>>

\* animation_tick: the timer source fires (gtk_widget_queue_draw only).
animation_tick ==
  /\ pc = "running"
  /\ inst.timeout_id # 0
  /\ last' = Ran("tick", "")
  /\ UNCHANGED <<pc, inst, widget, now, good>>

\* The "draw" signal of the drawing area.
OnDraw ==
  /\ pc = "running"
  /\ last' = [Ran("draw", "") EXCEPT !.frame = on_draw(inst, now)]
  /\ UNCHANGED <<pc, inst, widget, now, good>>

\* handle_file_change: the "changed" signal of the monitor.
handle_file_change(event, files) ==
  /\ pc = "running"
  /\ inst.monitor
  /\ IF event_reloads(event)
     THEN \E file \in files : refresh("file_event", event, file)
     ELSE /\ last' = Ran("file_event", event)
          /\ UNCHANGED <<inst, widget, good>>
  /\ UNCHANGED <<pc, now>>

\* The monotonic clock advances by one step.
ClockStepUs == 50 * Milli

ClockAdvance(max_now) ==
  /\ pc # "dead"
  /\ now < max_now * ClockStepUs
  /\ now' = now + ClockStepUs
  /\ last' = [NoOp EXCEPT !.op = "clock", !.at = now']
  /\ UNCHANGED <<pc, inst, widget, good>>

----------------------------------------------------------------------------
\* The inputs.

Obj(m) == FileOf(Text(JObject(m)))

EmptyObject == Obj(<<>>)

ObjectFiles ==
  { EmptyObject,
    Obj([text |-> JString("Hi")]),
    Obj([text |-> JNumber(5 * Milli), tooltip |-> JString("tip"), class |-> JString("busy")]),
    Obj([text |-> JString("Hello"), tooltip |-> JNull,
         class |-> JArray(<<JString("a"), JString("b")>>)]),
    Obj([class |-> JArray(<<JString("a"), JNumber(1 * Milli), JString("a")>>)]),
    Obj([text |-> JString(""), tooltip |-> JString("tip"), class |-> JNumber(7 * Milli)]) }

FailingFiles ==
  { Unreadable,                               \* the read fails
    FileOf(BadText),                          \* "{not json"
    FileOf(Text(JArray(<<JString("a")>>))),   \* the root is an array
    FileOf(Text(NoNode)) }                    \* an empty document: no root

CacheFiles == ObjectFiles \cup FailingFiles

FewFiles == { Unreadable, Obj([text |-> JString("Hi"), class |-> JString("busy")]) }

FewEvents == {"CHANGED", "DELETED"}

ActionNames == { NULL, Str("reload"), Str("toggle") }

Entry(key, value) == [key |-> key, value |-> value]

Num(v) == Text(JNumber(v))

Options(key, values) == {<<>>} \cup { <<Entry(key, v)>> : v \in values }

\* A few whole configurations, for the runs that follow the animation.
ConfigProfiles ==
  { <<>>,
    <<Entry("period_ms", Num(50 * Milli)), Entry("pause_ms", Num(100 * Milli)),
      Entry("width_chars", Num(50 * Milli)),
      Entry("cache_path", Text(JString(<<"~", "/", "c">>))),
      Entry("highlight_color", Text(JString("#FF0000")))>>,
    <<Entry("period_ms", Num(50 * Milli)), Entry("pause_ms", Num(-5 * Milli)),
      Entry("highlight_alpha", Num(0)),
      Entry("base_color", Text(JString("no colour"))),
      Entry("period_ms", Num(900 * Milli))>> }

\* Every combination of a missing, unparsable, wrongly typed, in-range or
\* out-of-range value of the numeric keys.
ConfigInputs ==
  { p \o wc \o w \o pa \o cy \o ti \o ha \o ba :
      p  \in Options("period_ms", {BadText, Text(JString("fast")), Num(50 * Milli), Num(300 * Milli)}),
      wc \in Options("width_chars", {Num(50 * Milli), Num(500)}),
      w  \in Options("width", {Num(2 * Milli)}),
      pa \in Options("pause_ms", {Num(-5 * Milli), Text(JBool(TRUE))}),
      cy \in Options("cycles", {Num(0), Num(9 * Milli), Text(JArray(<<>>))}),
      ti \in Options("tick_ms", {Num(1 * Milli), Num(5000 * Milli), Num(-3 * Milli), BadText}),
      ha \in Options("highlight_alpha", {Num(-1 * Milli), Num(2 * Milli), Text(JNull)}),
      ba \in Options("base_alpha", {Num(-500), Text(JString("1"))}) }

----------------------------------------------------------------------------
\* The specifications.

MaxNow == 5

MaxNowConfig == 1

NextOf(configs, files, events, max_now) ==
  \/ wbcffi_init(configs, files)
  \/ wbcffi_deinit
  \/ wbcffi_update
  \/ wbcffi_refresh(files)
  \/ \E name \in ActionNames : wbcffi_doaction(name, files)
  \/ animation_tick
  \/ OnDraw
  \/ \E event \in events : handle_file_change(event, files)
  \/ ClockAdvance(max_now)

Next == NextOf(ConfigProfiles, CacheFiles, FileMonitorEvents, MaxNow)

Spec == Init /\ [][Next]_vars

\* The same widget under every configuration input, over a short run.
NextConfig == NextOf(ConfigInputs, FewFiles, FewEvents, MaxNowConfig)

SpecConfig == Init /\ [][NextConfig]_vars

----------------------------------------------------------------------------
\* What the claims speak of.

\* The displayed content: text, tooltip, recorded and applied tags.
Content ==
  <<inst.text_plain, inst.tooltip_text, inst.style_classes, widget.classes, widget.tooltip>>

Config ==
  <<inst.period_ms, inst.pause_ms, inst.width_chars, inst.tick_ms, inst.cycles,
    inst.highlight_alpha, inst.base_alpha>>

\* The three ways a reload fails, read off the file.
FileUnreadable(file) == ~file.readable
FileMalformed(file)  == file.readable /\ ~file.text.valid
FileWrongShape(file) == file.readable /\ file.text.valid /\ file.text.root.type # "object"
FileFails(file)      == FileUnreadable(file) \/ FileMalformed(file) \/ FileWrongShape(file)

\* The content a JSON object stands for, in the words of the claims.
MemberOf(root, name) ==
  IF name \in DOMAIN root.members THEN root.members[name] ELSE NoNode

ExpectedText(root) ==
  IF MemberOf(root, "text").type = "string"
  THEN Str(MemberOf(root, "text").s) ELSE Str(Placeholder)

ExpectedTooltip(root) ==
  IF MemberOf(root, "tooltip").type = "string"
  THEN Str(MemberOf(root, "tooltip").s) ELSE NULL

RECURSIVE StringElements(_)
StringElements(elems) ==
  IF elems = <<>> THEN <<>>
  ELSE (IF Head(elems).type = "string" THEN <<Head(elems).s>> ELSE <<>>)
         \o StringElements(Tail(elems))

ExpectedTags(root) ==
  IF MemberOf(root, "class").type = "array"
  THEN StringElements(MemberOf(root, "class").elems)
  ELSE IF MemberOf(root, "class").type = "string"
  THEN <<MemberOf(root, "class").s>>
  ELSE <<>>

TagSet(tags) == {tags[k] : k \in 1..Len(tags)}

ABFile ==
  Obj([text |-> JString("Hello"), tooltip |-> JNull,
       class |-> JArray(<<JString("a"), JString("b")>>)])

----------------------------------------------------------------------------
\* C1: a reload that fails (file unreadable, invalid JSON, or a root that is
\* not an object) returns FALSE and leaves the text, the tooltip, the applied
\* tags and the animation epoch as they were before the call.  In wbcffi_init
\* "before the call" is the fresh instance with its epoch just set to now.
C1_FailedReloadKeepsState ==
  [][ (last'.loaded /\ FileFails(last'.file)) =>
        /\ ~last'.ok
        /\ IF last'.op = "init"
           THEN /\ inst'.text_plain = NULL
                /\ inst'.tooltip_text = NULL
                /\ inst'.style_classes = <<>>
                /\ widget'.classes = {}
                /\ widget'.tooltip = NULL
                /\ inst'.start_time_us = now'
           ELSE /\ Content' = Content
                /\ inst'.start_time_us = inst.start_time_us ]_vars

C1_Witness ==
  /\ last.loaded /\ FileWrongShape(last.file) /\ last.op = "file_event"
  /\ inst.text_plain = Str("Hello")
  /\ widget.classes = {"a", "b"}
  /\ inst.start_time_us < now

\* C2: the style tags applied to the widget are exactly the tags of the
\* latest successful reload, and none when no reload has succeeded.
C2_AppliedTagsAreLatest ==
  pc = "running" =>
    /\ widget.classes = (IF good.any THEN TagSet(ExpectedTags(good.file.text.root)) ELSE {})
    /\ TagSet(inst.style_classes) = widget.classes

C2_Witness ==
  /\ pc = "running"
  /\ good.any /\ good.file = ABFile
  /\ last.loaded /\ ~last.ok
  /\ widget.classes = {"a", "b"}

\* C3: whenever on_draw can run (the instance is running), the stored text is
\* present and non-empty.
C3_TextNeverEmptyAtRender ==
  pc = "running" => (~inst.text_plain.isnull /\ inst.text_plain.s # "")

\* C4: after a successful reload the text, the tooltip and the tags are a
\* function of the file's JSON object alone: the "text" string or the
\* placeholder, the "tooltip" string or none, the strings of a "class" array
\* or the one "class" string or no tag.
C4_ContentIsFunctionOfFile ==
  (last.loaded /\ ~FileFails(last.file)) =>
    /\ last.ok
    /\ inst.text_plain = ExpectedText(last.file.text.root)
    /\ inst.tooltip_text = ExpectedTooltip(last.file.text.root)
    /\ widget.tooltip = ExpectedTooltip(last.file.text.root)
    /\ inst.style_classes = ExpectedTags(last.file.text.root)
    /\ widget.classes = TagSet(ExpectedTags(last.file.text.root))

C4_Witness ==
  /\ last.loaded /\ last.ok /\ last.op = "refresh"
  /\ last.file = EmptyObject
  /\ inst.text_plain = Str(Placeholder)
  /\ inst.tooltip_text = NULL
  /\ widget.classes = {}

\* C5: the epoch never moves backward; it changes only in wbcffi_init and in
\* a successful reload, which sets it to the current monotonic time; ticks,
\* redraw requests, paints, failed reloads and ignored file events keep it.
C5_EpochOnlyOnReload ==
  [][ /\ inst'.start_time_us >= inst.start_time_us
      /\ (inst'.start_time_us # inst.start_time_us =>
            (last'.op = "init" \/ (last'.loaded /\ last'.ok)))
      /\ ((last'.loaded /\ last'.ok) => inst'.start_time_us = now')
      /\ (last'.op = "init" => inst'.start_time_us = now') ]_vars

C5_Witness ==
  /\ last.op = "file_event" /\ last.loaded /\ last.ok
  /\ inst.start_time_us = now
  /\ now = 2 * ClockStepUs

\* C6: a file event of kind CHANGED, CREATED, CHANGES_DONE_HINT, MOVED_IN or
\* MOVED runs one reload and applies its result; any other kind runs none
\* and leaves text, tooltip, tags and epoch unchanged.
C6_FileEventReloads ==
  [][ last'.op = "file_event" =>
        IF last'.arg \in {"CHANGED", "CREATED", "CHANGES_DONE_HINT", "MOVED_IN", "MOVED"}
        THEN /\ last'.loaded
             /\ IF FileFails(last'.file)
                THEN Content' = Content /\ inst'.start_time_us = inst.start_time_us
                ELSE /\ inst'.text_plain = ExpectedText(last'.file.text.root)
                     /\ inst'.tooltip_text = ExpectedTooltip(last'.file.text.root)
                     /\ widget'.classes = TagSet(ExpectedTags(last'.file.text.root))
                     /\ inst'.start_time_us = now'
        ELSE /\ ~last'.loaded
             /\ Content' = Content
             /\ inst'.start_time_us = inst.start_time_us ]_vars

C6_Witness ==
  /\ last.op = "file_event" /\ last.arg = "MOVED" /\ last.ok
  /\ inst.text_plain = Str("Hi")
  /\ inst.start_time_us = now /\ now > 0

\* C7: when the file watch could not be set up, wbcffi_init still loads the
\* cache once and starts the timer, and afterwards the content changes only
\* in wbcffi_refresh or in wbcffi_doaction("reload").
C7_NoWatchNeedsRefresh ==
  [][ (pc' = "running" /\ ~inst'.monitor) =>
        /\ (last'.op = "init" =>
              /\ last'.loaded
              /\ inst'.timeout_id # 0
              /\ (~FileFails(last'.file) =>
                    inst'.text_plain = ExpectedText(last'.file.text.root)))
        /\ last'.op # "file_event"
        /\ ((pc = "running" /\ Content' # Content) =>
              (last'.op = "refresh" \/ (last'.op = "doaction" /\ last'.arg = "reload")))
        /\ (last'.op \in {"refresh", "doaction"} /\ (last'.op = "doaction" => last'.arg = "reload")
              => last'.loaded) ]_vars

C7_Witness ==
  /\ pc = "running" /\ ~inst.monitor
  /\ last.op = "doaction" /\ last.arg = "reload" /\ last.ok
  /\ inst.text_plain = Str("Hi")

C8_ConfigInRange ==
  /\ inst.period_ms >= 200 * Milli
  /\ inst.pause_ms >= 0
  /\ inst.width_chars >= 1 * Milli /\ inst.width_chars <= 20 * Milli
  /\ inst.tick_ms >= 5 /\ inst.tick_ms <= 1000
  /\ inst.cycles >= 100 /\ inst.cycles <= 6 * Milli
  /\ inst.highlight_alpha >= 0 /\ inst.highlight_alpha <= 1 * Milli
  /\ inst.base_alpha >= 0 /\ inst.base_alpha <= 1 * Milli

C8_Examples ==
  /\ configure(<<Entry("period_ms", Num(50 * Milli))>>).period_ms = 200 * Milli
  /\ configure(<<Entry("width_chars", Num(50 * Milli))>>).width_chars = 20 * Milli
  /\ configure(<<Entry("tick_ms", Num(1 * Milli))>>).tick_ms = 5
  /\ configure(<<Entry("tick_ms", BadText)>>).tick_ms = 33
  /\ configure(<<Entry("period_ms", Text(JString("fast")))>>).period_ms = 1600 * Milli

\* C8: whatever the configuration entries, the instance runs with
\* period_ms >= 200, pause_ms >= 0, 1 <= width_chars <= 20, 5 <= tick_ms <= 1000,
\* 0.1 <= cycles <= 6 and both alphas in [0, 1]; period_ms 50 becomes 200,
\* width_chars 50 becomes 20, tick_ms 1 becomes 5, a malformed value leaves the
\* default; and no later handler changes a configuration field.
C8_ConfigClamped ==
  [][ /\ (pc' = "running" => C8_ConfigInRange')
      /\ (last'.op = "init" => pc' = "running")
      /\ C8_Examples
      /\ ((pc = "running" /\ pc' = "running") => Config' = Config) ]_vars

C8_Witness ==
  /\ pc = "running"
  /\ last.op = "refresh" /\ last.ok
  /\ inst.period_ms = 200 * Milli
  /\ inst.width_chars = 20 * Milli
  /\ inst.tick_ms = 5
  /\ inst.highlight_alpha = 0

C9_CyclePos == (last.at - inst.start_time_us) % (inst.period_ms + inst.pause_ms)

\* C9: a frame painted for a non-empty text of positive width has its base
\* pass, and has no gradient stop when the position in the cycle,
\* elapsed mod (period + pause), is at or past the period or when
\* highlight_alpha <= 0: the highlight shows only in the first period_ms of
\* each cycle counted from the epoch.
C9_PauseHasNoHighlight ==
  (/\ last.op = "draw"
   /\ ~inst.text_plain.isnull
   /\ inst.text_plain.s # ""
   /\ pango_layout_get_pixel_size(inst.text_plain.s).w > 0) =>
    /\ last.frame.ret
    /\ last.frame.base
    /\ ((C9_CyclePos >= inst.period_ms \/ inst.highlight_alpha <= 0) => last.frame.stops = 0)
    /\ (last.frame.stops > 0 => C9_CyclePos < inst.period_ms)

C9_Witness ==
  /\ last.op = "draw"
  /\ last.frame.base
  /\ last.frame.stops = 0
  /\ inst.highlight_alpha > 0
  /\ C9_CyclePos >= inst.period_ms

C10_SweepPositions == { k * ClockStepUs : k \in 0..((inst.period_ms \div ClockStepUs) - 1) }

C10_CenterAt(cycle_pos) ==
  band_of(last.frame.layout_width_px, inst.text_plain.s, inst.width_chars,
          inst.period_ms, cycle_pos).center_px

\* C10: within one sweep the centre of the band is strictly increasing in the
\* phase, the band width being recomputed at each phase: the centre painted at
\* this frame lies right of the centre of every earlier position of the sweep
\* and left of the centre of every later one.
C10_CenterStrictlyIncreasing ==
  (last.op = "draw" /\ last.frame.stops > 0) =>
    \A cp \in C10_SweepPositions :
      /\ (cp < last.frame.cycle_pos => RLt(C10_CenterAt(cp), last.frame.center_px))
      /\ (cp > last.frame.cycle_pos => RLt(last.frame.center_px, C10_CenterAt(cp)))

====
